---- MODULE Spec2Model ----
(***************************************************************************)
(* Model of the SGX backend of enarx-keepldr:                              *)
(*   - Backend::build        (src/backend/sgx/mod.rs)                      *)
(*   - Keep::spawn, Thread::enter, Thread::cpuid, Thread::attest           *)
(*   - enclave::Thread::enter and handler (src/backend/sgx/enclave/        *)
(*     execute.rs)                                                         *)
(*   - the in-enclave BaseSyscallHandler::proxy (shim-sgx handler/base.rs) *)
(***************************************************************************)
EXTENDS Integers, Sequences, FiniteSets, TLC

(***************************************************************************)
(* Bounds of the model.                                                    *)
(***************************************************************************)
\* Largest number of Thread::enter calls made on the spawned thread.
MaxCalls == 4
\* Largest number of Thread::enter calls made on a thread whose enclave
\* side is followed statement by statement.
MaxShimCalls == 5

(***************************************************************************)
(* Program constants.                                                      *)
(***************************************************************************)
\* enum Entry (repr(u32)): the ENCLU leaf used for the next hardware entry.
Enter == 2
Resume == 3
\* run.function value reported for a clean exit (EEXIT).
EEXIT == 4
\* x86 exception vectors (InterruptVector): #DE, #UD, #PF.
DivideError == 0
InvalidOpcode == 6
Page == 14
\* sallyport request numbers serviced by the host-side thread itself.
SYS_ENARX_CPUID == 59906
SYS_ENARX_GETATT == 59907
\* Page::SIZE
PAGE_SIZE == 4096

(***************************************************************************)
(* Machine words.  A 64-bit register value is the pair <<hi, lo>> of its   *)
(* upper and lower 32 bits, so that the u32 conversions of the code keep   *)
(* their meaning.                                                          *)
(***************************************************************************)
W(hi, lo) == <<hi, lo>>
Zero == W(0, 0)
\* u32::try_from(usize) succeeds exactly when the upper half is zero.
FitsU32(w) == w[1] = 0

\* Block::default(): the message union is zeroed.  Word 0 is req.num and
\* rep.ret[0]; word 1 is req.arg[0] and rep.ret[1]; word 2 is req.arg[1] and
\* rep.err; word 3+i is req.arg[2+i].
MsgWords == 0..6
BlockDefault == [i \in MsgWords |-> Zero]
ReqNum(b) == b[0]
ReqArg(b, i) == b[i + 1]

\* Registers::default()
RegistersDefault == [rdi |-> 0, rsi |-> 0, rdx |-> 0, r8 |-> 0, r9 |-> 0]
\* (&mut self.block).into(): the address of the thread's message block.
BlockAddr == 3 * PAGE_SIZE

VARIABLES
    how,        \* Thread.how: mode of the next hardware entry
    cssa,       \* Thread.cssa
    registers,  \* Thread.registers
    block,      \* Thread.block.msg (shared with the enclave)
    pc,         \* position of the host thread: "idle", "inside", "panicked"
    prev,       \* local `prev` of the current / last Thread::enter call
    ret,        \* result of the last Thread::enter call
    decoded,    \* the last call read block.msg.req (line 253)
    outcome,    \* what the hardware reported to the last call
    nEnter,     \* completed calls whose resulting mode was Enter
    nResume,    \* completed calls whose resulting mode was Resume
    nSysCall,   \* completed calls that returned Command::SysCall
    shim,       \* Backend::build argument: the shim component
    code,       \* Backend::build argument: the code component
    bpc,        \* position of Backend::build
    segs,       \* local `segs` of build: the sorted segments
    idx,        \* position of the `for seg in segs` loop (1-based)
    builder,    \* loads accepted by the Builder, in order
    hasher,     \* loads folded into the Hasher, in order
    measure,    \* the Hasher's life: "open", "finished", "signed"
    hw,         \* hardware operations issued so far, in order, with results
    bret,       \* result of build: "none", "Ok", "Err", "panic"
    failed,     \* the step of build whose error was propagated, or "none"
    inRun,      \* enclave::Thread::enter: what the vDSO call reported
    inHow,      \* enclave::Thread::enter: argument `how`
    outEnter,   \* enclave::Thread::enter: its result, or "pending"
    inPhdr,     \* Segment::new: argument `phdr`
    inRelocate, \* Segment::new: argument `relocate`
    outSeg,     \* Segment::new: its result, "panic" or "pending"
    esite,      \* where the enclave code stands: "run", "proxy", "trapped",
                \* "parked"
    epi,        \* position inside proxy (index of its next statement)
    ereq,       \* argument `req` of the current proxy call
    erep,       \* the reply field read by the last proxy call
    ptrace,     \* what has happened so far in the current proxy call
    hostRep,    \* what the host wrote into the block for the current
                \* request: the words, and the values put there
    tripped,    \* the circuit breaker: attacked() has been called
    postTrip,   \* calls of Thread::enter completed after the trip
    lastPost    \* how the latest of those calls ended

tvars == <<how, cssa, registers, block, pc, prev, ret, decoded, outcome,
           nEnter, nResume, nSysCall>>
bvars == <<shim, code, bpc, segs, idx, builder, hasher, measure, hw, bret,
           failed>>
evars == <<inRun, inHow, outEnter>>
svars == <<inPhdr, inRelocate, outSeg>>
hvars == <<esite, epi, ereq, erep, ptrace, hostRep, tripped, postTrip,
           lastPost>>
xvars == <<evars, svars, hvars>>
vars == <<tvars, bvars, xvars>>

(***************************************************************************)
(* Inputs of the thread model: what the enclave and the hardware can do.   *)
(***************************************************************************)
\* Register values the enclave may leave behind on an exit.
RegVals == {0, 5}
RegsOut == {[rdi |-> a, rsi |-> b, rdx |-> b, r8 |-> b, r9 |-> b] :
                a \in RegVals, b \in RegVals}

\* What the vDSO call reports: its return value, run.function and the
\* exception fields of the run structure.
HwReports ==
    {[rax |-> x, function |-> f, vector |-> v, code |-> c[1], addr |-> c[2]] :
        x \in {0, -14}, f \in {Enter, Resume, EEXIT},
        v \in {DivideError, InvalidOpcode, Page},
        c \in {<<0, 0>>, <<4, PAGE_SIZE>>}}

\* Requests the in-enclave proxy may place in the block.
ReqNums == {W(0, 0), W(0, 1), W(0, SYS_ENARX_CPUID), W(0, SYS_ENARX_GETATT),
            W(1, SYS_ENARX_CPUID)}
ReqArgs == {[i \in 0..5 |-> Zero],
            [i \in 0..5 |-> IF i = 0 THEN W(0, 7) ELSE W(0, i)],
            [i \in 0..5 |-> IF i = 0 THEN W(1, 0) ELSE Zero]}
Requests == {[num |-> n, arg |-> a] : n \in ReqNums, a \in ReqArgs}

\* Results of the cpuid instruction and of get_attestation.
CpuidResults == {[eax |-> 11, ebx |-> 12, ecx |-> 13, edx |-> 14],
                 [eax |-> 0, ebx |-> 0, ecx |-> 0, edx |-> 0]}
AttResults == {[ok |-> TRUE, val |-> W(0, 64)], [ok |-> FALSE, val |-> Zero]}

\* Replies the caller may write while servicing a SysCall command.
HostReplies == {[ret0 |-> W(0, 9), ret1 |-> Zero, err |-> Zero],
                [ret0 |-> W(1, 0), ret1 |-> Zero, err |-> W(0, 2)]}

(***************************************************************************)
(* enclave::Thread::enter (execute.rs): the result of one hardware entry.  *)
(***************************************************************************)
NoException == [kind |-> "Ok", last |-> 0, trap |-> 0, code |-> 0, addr |-> 0]
Unreachable == [kind |-> "Abort", last |-> 0, trap |-> 0, code |-> 0, addr |-> 0]

\* Variant: a reported EEXIT counts as success whatever the call returned.
EnclaveThreadEnter_IgnoresRax(rep) ==
    IF rep.function = EEXIT THEN NoException
    ELSE IF rep.rax = 0 /\ rep.function \in {Enter, Resume}
    THEN [kind |-> "Err", last |-> rep.function, trap |-> rep.vector % 256,
          code |-> rep.code, addr |-> rep.addr]
    ELSE Unreachable

\* match (rax, run.function) { (0, 4) => Ok, (0, 2) | (0, 3) => Err(info),
\* _ => unreachable!() }
EnclaveThreadEnter(rep) ==
    IF rep.rax = 0 /\ rep.function = EEXIT THEN NoException
    ELSE IF rep.rax = 0 /\ rep.function \in {Enter, Resume}
    THEN [kind |-> "Err", last |-> rep.function, trap |-> rep.vector % 256,
          code |-> rep.code, addr |-> rep.addr]
    ELSE Unreachable

\* handler(): the registers the enclave returned are copied into the
\* caller's Registers structure.
Handler(regs, out) ==
    [regs EXCEPT !.rdi = out.rdi, !.rsi = out.rsi, !.rdx = out.rdx,
                 !.r8 = out.r8, !.r9 = out.r9]

(***************************************************************************)
(* Thread::enter (mod.rs): the mode, the depth counter and the dispatch.   *)
(***************************************************************************)
\* Variant: the new mode follows the previous mode on a clean return.
NewHow_FollowsPrev(res, old) ==
    IF res.kind = "Err" /\ res.trap = InvalidOpcode
    THEN [panic |-> FALSE, how |-> Enter]
    ELSE IF res.kind = "Ok"
    THEN [panic |-> FALSE, how |-> IF old = Enter THEN Resume ELSE Enter]
    ELSE [panic |-> TRUE, how |-> old]

\* Variant: every asynchronous exit is taken for the proxy trap.
NewHow_AnyTrap(res, old) ==
    IF res.kind = "Err"
    THEN [panic |-> FALSE, how |-> Enter]
    ELSE IF res.kind = "Ok"
    THEN [panic |-> FALSE, how |-> Resume]
    ELSE [panic |-> TRUE, how |-> old]

\* self.how = match self.thread.enter(..) { Err(ei) if ei.trap ==
\* InvalidOpcode => Enter, Ok(_) => Resume, e => panic!() }
NewHow(res, old) ==
    IF res.kind = "Err" /\ res.trap = InvalidOpcode
    THEN [panic |-> FALSE, how |-> Enter]
    ELSE IF res.kind = "Ok"
    THEN [panic |-> FALSE, how |-> Resume]
    ELSE [panic |-> TRUE, how |-> old]

\* Variant: the resume arm forgets to decrement.
TrackCssa_NoDecrement(h, c) ==
    IF h = Enter THEN [panic |-> FALSE, cssa |-> c + 1]
    ELSE IF c = 0 THEN [panic |-> TRUE, cssa |-> c]
    ELSE [panic |-> FALSE, cssa |-> c]

\* Variant: the resume arm decrements without the check for zero.
TrackCssa_Unchecked(h, c) ==
    IF h = Enter THEN [panic |-> FALSE, cssa |-> c + 1]
    ELSE [panic |-> FALSE, cssa |-> c - 1]

\* match self.how { Enter => cssa += 1, Resume => match cssa { 0 =>
\* unreachable!(), _ => cssa -= 1 } }
TrackCssa(h, c) ==
    IF h = Enter THEN [panic |-> FALSE, cssa |-> c + 1]
    ELSE IF c = 0 THEN [panic |-> TRUE, cssa |-> c]
    ELSE [panic |-> FALSE, cssa |-> c - 1]

\* Variant: the pair is tested the other way round.
EvaluatesSallyport_Swapped(p, h) == p = Resume /\ h = Enter

\* Variant: the previous mode is not tested.
EvaluatesSallyport_AnyPrev(p, h) == h = Resume

\* Variant: only the previous mode is tested.
EvaluatesSallyport_OnlyPrev(p, h) == p = Enter

\* if let (Entry::Enter, Entry::Resume) = (prev, self.how)
EvaluatesSallyport(p, h) == p = Enter /\ h = Resume

\* Variant: the cpuid arm is missing.
Dispatch_NoCpuidArm(num) ==
    IF num = W(0, SYS_ENARX_GETATT) THEN "attest"
    ELSE "syscall"

\* match req.num.into() { SYS_ENARX_CPUID => .., SYS_ENARX_GETATT => ..,
\* _ => SysCall }
Dispatch(num) ==
    IF num = W(0, SYS_ENARX_CPUID) THEN "cpuid"
    ELSE IF num = W(0, SYS_ENARX_GETATT) THEN "attest"
    ELSE "syscall"

\* self.block.msg.rep = reply
WriteRep(b, r) == [b EXCEPT ![0] = r.ret0, ![1] = r.ret1, ![2] = r.err]
\* self.block.msg.req = req
WriteReq(b, r) ==
    [i \in MsgWords |-> IF i = 0 THEN r.num ELSE r.arg[i - 1]]

\* Thread::cpuid: the two try_into().unwrap() conversions panic when the
\* leaf or sub-leaf does not fit u32; otherwise arg[0..3] receive the result.
Cpuid(b, c) ==
    IF FitsU32(ReqArg(b, 0)) /\ FitsU32(ReqArg(b, 1))
    THEN [panic |-> FALSE,
          block |-> [b EXCEPT ![1] = W(0, c.eax), ![2] = W(0, c.ebx),
                              ![3] = W(0, c.ecx), ![4] = W(0, c.edx)]]
    ELSE [panic |-> TRUE, block |-> b]

\* Variant: a failed retrieval is reported in the reply as well.
Attest_RepliesOnFailure(b, a) ==
    IF a.ok
    THEN [err |-> FALSE,
          block |-> WriteRep(b, [ret0 |-> a.val, ret1 |-> Zero, err |-> Zero])]
    ELSE [err |-> TRUE,
          block |-> WriteRep(b, [ret0 |-> Zero, ret1 |-> Zero, err |-> W(0, 1)])]

\* Thread::attest: get_attestation(..)? then rep = Ok([result, 0]).
Attest(b, a) ==
    IF a.ok
    THEN [err |-> FALSE,
          block |-> WriteRep(b, [ret0 |-> a.val, ret1 |-> Zero, err |-> Zero])]
    ELSE [err |-> TRUE, block |-> b]

\* No call of enclave::Thread::enter is under study.
EntryIdle ==
    /\ inRun = [rax |-> 0, function |-> EEXIT, vector |-> 0, code |-> 0,
                addr |-> 0]
    /\ inHow = Enter
    /\ outEnter = [kind |-> "pending", last |-> 0, trap |-> 0, code |-> 0,
                   addr |-> 0]

\* No call of Segment::new is under study.
SegmentIdle ==
    /\ inPhdr = [vaddr |-> 0, memsz |-> 0, flags |-> 0, names |-> {}]
    /\ inRelocate = 0
    /\ outSeg = [state |-> "pending"]

\* A Reply as three words.
NoReply == [ret0 |-> Zero, ret1 |-> Zero, err |-> Zero]
\* The host has written nothing into the block for the current request.
WroteNothing == [words |-> {}, img |-> BlockDefault]

\* The enclave code before its first entry: outside proxy, breaker intact.
ShimIdle ==
    /\ esite = "run"
    /\ epi = 0
    /\ ereq = [num |-> Zero, arg |-> [i \in 0..5 |-> Zero]]
    /\ erep = NoReply
    /\ ptrace = <<>>
    /\ hostRep = WroteNothing
    /\ tripped = FALSE
    /\ postTrip = 0
    /\ lastPost = "none"

ExtraIdle == EntryIdle /\ SegmentIdle /\ ShimIdle

\* No build is in progress.
BuildIdle ==
    /\ shim = [loads |-> <<>>, slot |-> [has |-> FALSE, start |-> 0, count |-> 0],
               notes |-> [size |-> [kind |-> "None", val |-> 0],
                          ssap |-> [kind |-> "None", val |-> 0]]]
    /\ code = [loads |-> <<>>]
    /\ bpc = "idle"
    /\ segs = <<>>
    /\ idx = 1
    /\ builder = <<>>
    /\ hasher = <<>>
    /\ measure = "none"
    /\ hw = <<>>
    /\ bret = "none"
    /\ failed = "none"

\* No thread has been spawned.
ThreadIdle ==
    /\ how = Enter
    /\ cssa = 0
    /\ registers = RegistersDefault
    /\ block = BlockDefault
    /\ pc = "unspawned"
    /\ prev = Enter
    /\ ret = "none"
    /\ decoded = FALSE
    /\ outcome = NoException
    /\ nEnter = 0
    /\ nResume = 0
    /\ nSysCall = 0

\* Keep::spawn: the state of a freshly spawned thread.
ThreadInit ==
    /\ how = Enter
    /\ cssa = 0
    /\ registers = RegistersDefault
    /\ block = BlockDefault
    /\ pc = "idle"
    /\ prev = Enter
    /\ ret = "none"
    /\ decoded = FALSE
    /\ outcome = NoException
    /\ nEnter = 0
    /\ nResume = 0
    /\ nSysCall = 0
    /\ BuildIdle
    /\ ExtraIdle

\* Variant: the registers are passed as the enclave left them.
ThreadEnterCall_KeepsRdi ==
    /\ pc = "idle"
    /\ nEnter + nResume < MaxCalls
    /\ prev' = how
    /\ pc' = "inside"
    /\ ret' = "none"
    /\ decoded' = FALSE
    /\ UNCHANGED <<how, cssa, registers, block, outcome, nEnter, nResume, nSysCall>>
    /\ UNCHANGED bvars
    /\ UNCHANGED xvars

\* Thread::enter up to the hardware entry: prev = self.how; registers.rdi =
\* &mut self.block; the hardware is entered in mode prev.  The caller makes
\* at most n calls.
EnterCall(n) ==
    /\ pc = "idle"
    /\ nEnter + nResume < n
    /\ prev' = how
    /\ registers' = [registers EXCEPT !.rdi = BlockAddr]
    /\ pc' = "inside"
    /\ ret' = "none"
    /\ decoded' = FALSE
    /\ UNCHANGED <<how, cssa, block, outcome, nEnter, nResume, nSysCall>>
    /\ UNCHANGED bvars
    /\ UNCHANGED xvars

\* A caller that makes at most MaxCalls calls of enter.
ThreadEnterCall == EnterCall(MaxCalls)

\* BaseSyscallHandler::proxy, first statement: the enclave writes a request
\* into the shared block while it is executing.
ProxyWrite ==
    /\ pc = "inside"
    /\ \E r \in Requests : block' = WriteReq(block, r)
    /\ UNCHANGED <<how, cssa, registers, pc, prev, ret, decoded, outcome,
                   nEnter, nResume, nSysCall>>
    /\ UNCHANGED bvars
    /\ UNCHANGED xvars

Panicked ==
    /\ pc' = "panicked"
    /\ ret' = "panic"

\* Thread::enter from the return of the hardware entry to its own return,
\* given what the hardware reported (rep), the registers the enclave left
\* (out) and the results of cpuid (c) and of get_attestation (a).
ReturnFromHardware(rep, out, c, a) ==
        LET res == EnclaveThreadEnter(rep)
            nh  == NewHow(res, how)
            tc  == TrackCssa(nh.how, cssa)
            req == Dispatch(ReqNum(block))
            cp  == Cpuid(block, c)
            at  == Attest(block, a)
        IN
        /\ outcome' = res
        /\ registers' = IF rep.rax = 0 THEN Handler(registers, out)
                        ELSE registers
        /\ IF res.kind = "Abort" \/ nh.panic
           THEN /\ Panicked
                /\ UNCHANGED <<how, cssa, block, decoded, nEnter, nResume, nSysCall>>
           ELSE IF tc.panic
           THEN /\ Panicked
                /\ how' = nh.how
                /\ UNCHANGED <<cssa, block, decoded, nEnter, nResume, nSysCall>>
           ELSE
                /\ how' = nh.how
                /\ cssa' = tc.cssa
                /\ nEnter' = IF nh.how = Enter THEN nEnter + 1 ELSE nEnter
                /\ nResume' = IF nh.how = Resume THEN nResume + 1 ELSE nResume
                /\ nSysCall' = IF EvaluatesSallyport(prev, nh.how)
                                   /\ req = "syscall"
                               THEN nSysCall + 1 ELSE nSysCall
                /\ IF EvaluatesSallyport(prev, nh.how)
                   THEN /\ decoded' = TRUE
                        /\ CASE req = "cpuid" /\ cp.panic ->
                                  /\ Panicked
                                  /\ block' = block
                             [] req = "cpuid" /\ ~cp.panic ->
                                  /\ pc' = "idle"
                                  /\ ret' = "Continue"
                                  /\ block' = cp.block
                             [] req = "attest" /\ at.err ->
                                  /\ pc' = "idle"
                                  /\ ret' = "Err"
                                  /\ block' = at.block
                             [] req = "attest" /\ ~at.err ->
                                  /\ pc' = "idle"
                                  /\ ret' = "Continue"
                                  /\ block' = at.block
                             [] OTHER ->
                                  /\ pc' = "idle"
                                  /\ ret' = "SysCall"
                                  /\ block' = block
                   ELSE /\ decoded' = FALSE
                        /\ pc' = "idle"
                        /\ ret' = "Continue"
                        /\ block' = block

\* The hardware returns with any report and the call of Thread::enter ends.
ThreadEnterReturn ==
    /\ pc = "inside"
    /\ \E rep \in HwReports, out \in RegsOut, c \in CpuidResults,
          a \in AttResults : ReturnFromHardware(rep, out, c, a)
    /\ UNCHANGED prev
    /\ UNCHANGED bvars
    /\ UNCHANGED xvars

\* The caller services a SysCall command: it writes the reply into the block
\* it was handed, before it calls enter again.
HostService ==
    /\ pc = "idle"
    /\ ret = "SysCall"
    /\ \E r \in HostReplies : block' = WriteRep(block, r)
    /\ UNCHANGED <<how, cssa, registers, pc, prev, ret, decoded, outcome,
                   nEnter, nResume, nSysCall>>
    /\ UNCHANGED bvars
    /\ UNCHANGED xvars


(***************************************************************************)
(* Backend::build: the image layout.                                       *)
(***************************************************************************)
\* Largest number of PT_LOAD headers of the shim and of the code image.
MaxShimLoads == 2
MaxCodeLoads == 1

\* ELF p_flags bits (goblin) and the two enarx extensions.
PF_X == 1
PF_W == 2
PF_R == 4
PF_ENARX_SGX_TCS == 2 ^ 20
PF_ENARX_SGX_UNMEASURED == 2 ^ 21

\* phdr.p_flags & bit == bit, for a single-bit mask.
HasFlag(flags, bit) == (flags \div bit) % 2 = 1

\* Sequences over S of length at most n.
SeqUpTo(S, n) == UNION {[1..k -> S] : k \in 0..n}

\* PT_LOAD headers of the shim and of the code image (p_vaddr, p_memsz,
\* p_flags).
ShimPhdrs ==
    {[vaddr |-> 0, memsz |-> PAGE_SIZE, flags |-> PF_R + PF_X],
     [vaddr |-> PAGE_SIZE, memsz |-> PAGE_SIZE + 1, flags |-> PF_R + PF_W],
     [vaddr |-> PAGE_SIZE + 16, memsz |-> 32,
      flags |-> PF_R + PF_W + PF_ENARX_SGX_TCS],
     [vaddr |-> 3 * PAGE_SIZE, memsz |-> PAGE_SIZE,
      flags |-> PF_R + PF_ENARX_SGX_UNMEASURED],
     [vaddr |-> 2 * PAGE_SIZE, memsz |-> 0, flags |-> PF_R]}
CodePhdrs ==
    {[vaddr |-> 0, memsz |-> PAGE_SIZE, flags |-> PF_R + PF_X],
     [vaddr |-> PAGE_SIZE, memsz |-> 2 * PAGE_SIZE, flags |-> PF_R],
     [vaddr |-> 0, memsz |-> 3 * PAGE_SIZE, flags |-> PF_R + PF_W],
     [vaddr |-> 0, memsz |-> 0, flags |-> PF_R + PF_W]}

\* The shim's PT_ENARX_CODE header (the code slot), when it has one.
Slots == {[has |-> FALSE, start |-> 0, count |-> 0],
          [has |-> TRUE, start |-> 4 * PAGE_SIZE, count |-> 2 * PAGE_SIZE],
          [has |-> TRUE, start |-> 2 * PAGE_SIZE, count |-> 2 * PAGE_SIZE],
          [has |-> TRUE, start |-> 4 * PAGE_SIZE + 8, count |-> 2 * PAGE_SIZE]}

\* The two notes of the shim, each the outcome of read_note(..): an error,
\* no note, or a value.
Notes == {[size |-> [kind |-> "Some", val |-> 16], ssap |-> [kind |-> "Some", val |-> 1]],
          [size |-> [kind |-> "Err", val |-> 0], ssap |-> [kind |-> "Some", val |-> 1]],
          [size |-> [kind |-> "None", val |-> 0], ssap |-> [kind |-> "Some", val |-> 1]],
          [size |-> [kind |-> "Some", val |-> 16], ssap |-> [kind |-> "Err", val |-> 0]],
          [size |-> [kind |-> "Some", val |-> 16], ssap |-> [kind |-> "None", val |-> 0]],
          [size |-> [kind |-> "Some", val |-> 16], ssap |-> [kind |-> "Some", val |-> 0]]}

ShimComponents ==
    {[loads |-> l, slot |-> sl, notes |-> n] :
        l \in SeqUpTo(ShimPhdrs, MaxShimLoads), sl \in Slots, n \in Notes}
CodeComponents ==
    {[loads |-> l] : l \in SeqUpTo(CodePhdrs, MaxCodeLoads)}

Min(S) == CHOOSE x \in S : \A y \in S : x <= y
Max(S) == CHOOSE x \in S : \A y \in S : y <= x

\* Component::region(): the span from the lowest start to the highest end
\* of the PT_LOAD headers (empty when there is none).
RegionCount(c) ==
    IF Len(c.loads) = 0 THEN 0
    ELSE Max({c.loads[i].vaddr + c.loads[i].memsz : i \in 1..Len(c.loads)})
         - Min({c.loads[i].vaddr : i \in 1..Len(c.loads)})

\* Variant: the unmeasured flag of the header is ignored.
SegmentNew_AlwaysMeasured(phdr, relocate) ==
    LET mstart == phdr.vaddr + relocate
        skipb  == mstart % PAGE_SIZE
        rwx    == {f \in {PF_R, PF_W, PF_X} : HasFlag(phdr.flags, f)}
    IN [vpage |-> mstart \div PAGE_SIZE,
        pages |-> (skipb + phdr.memsz + PAGE_SIZE - 1) \div PAGE_SIZE,
        sinfo |-> IF HasFlag(phdr.flags, PF_ENARX_SGX_TCS)
                  THEN [class |-> "Tcs", flags |-> {}]
                  ELSE [class |-> "Reg", flags |-> rwx],
        flags |-> {"Measure"}]

\* Segment::new(component, phdr, relocate), once its assertion has passed.
SegmentNew(phdr, relocate) ==
    LET mstart == phdr.vaddr + relocate
        skipb  == mstart % PAGE_SIZE
        rwx    == {f \in {PF_R, PF_W, PF_X} : HasFlag(phdr.flags, f)}
    IN [vpage |-> mstart \div PAGE_SIZE,
        pages |-> (skipb + phdr.memsz + PAGE_SIZE - 1) \div PAGE_SIZE,
        sinfo |-> IF HasFlag(phdr.flags, PF_ENARX_SGX_TCS)
                  THEN [class |-> "Tcs", flags |-> {}]
                  ELSE [class |-> "Reg", flags |-> rwx],
        flags |-> IF HasFlag(phdr.flags, PF_ENARX_SGX_UNMEASURED)
                  THEN {} ELSE {"Measure"}]

\* assert_eq!(relocate % Page::SIZE, 0)
SegmentNewAsserts(relocate) == relocate % PAGE_SIZE = 0

\* The rearrangements of a slice.
Orders(s) ==
    {[i \in 1..Len(s) |-> s[p[i]]] :
        p \in {q \in [1..Len(s) -> 1..Len(s)] :
                  \A i, j \in 1..Len(s) : q[i] = q[j] => i = j}}

\* segs.sort_unstable_by_key(|x| x.vpage): the slice comes back ordered by
\* first page; the sort is unstable, so the order of segments with the same
\* first page is not specified and every such order is a possible result.
SortByVpage(s) ==
    {t \in Orders(s) : \A i \in 1..(Len(t) - 1) : t[i].vpage <= t[i + 1].vpage}

\* Variant: the check compares the first pages only and forgets the lengths.
NoOverlap_StartsOnly(s) ==
    \A i \in 1..(Len(s) - 1) : s[i].vpage <= s[i + 1].vpage

\* for pair in segs.windows(2) { assert!(pair[0].vpage + pair[0].pages.len()
\* <= pair[1].vpage) }
NoOverlap(s) ==
    \A i \in 1..(Len(s) - 1) : s[i].vpage + s[i].pages <= s[i + 1].vpage

\* ssegs.chain(csegs).collect()
CollectSegs(sh, co) ==
    [i \in 1..(Len(sh.loads) + Len(co.loads)) |->
        IF i <= Len(sh.loads) THEN SegmentNew(sh.loads[i], 0)
        ELSE SegmentNew(co.loads[i - Len(sh.loads)], sh.slot.start)]

\* The sort and the overlap check of lines 147-150, for each order the sort
\* may leave: the sorted segments, or the panic of the assertion.
SortAndCheck(s) ==
    {IF NoOverlap(t) THEN [kind |-> "Ok", segs |-> t]
     ELSE [kind |-> "panic", segs |-> <<>>] : t \in SortByVpage(s)}

\* Variant: the size of the code image is not compared with its slot.
Layout_NoSlotFit(sh, co) ==
    IF ~sh.slot.has THEN {[kind |-> "panic", segs |-> <<>>]}
    ELSE IF sh.notes.size.kind = "Err" THEN {[kind |-> "Err", segs |-> <<>>]}
    ELSE IF sh.notes.size.kind = "None" THEN {[kind |-> "panic", segs |-> <<>>]}
    ELSE IF sh.notes.ssap.kind = "Err" THEN {[kind |-> "Err", segs |-> <<>>]}
    ELSE IF sh.notes.ssap.kind = "None" \/ sh.notes.ssap.val = 0
    THEN {[kind |-> "panic", segs |-> <<>>]}
    ELSE IF Len(co.loads) > 0 /\ ~SegmentNewAsserts(sh.slot.start)
    THEN {[kind |-> "panic", segs |-> <<>>]}
    ELSE SortAndCheck(CollectSegs(sh, co))

\* Lines 126-150 of build up to the creation of the enclave: the possible
\* outcomes, each a panic (unwrap or assertion), a propagated error, or the
\* sorted segments.
Layout(sh, co) ==
    IF ~sh.slot.has THEN {[kind |-> "panic", segs |-> <<>>]}
    ELSE IF ~(RegionCount(co) <= sh.slot.count)
    THEN {[kind |-> "panic", segs |-> <<>>]}
    ELSE IF sh.notes.size.kind = "Err" THEN {[kind |-> "Err", segs |-> <<>>]}
    ELSE IF sh.notes.size.kind = "None" THEN {[kind |-> "panic", segs |-> <<>>]}
    ELSE IF sh.notes.ssap.kind = "Err" THEN {[kind |-> "Err", segs |-> <<>>]}
    ELSE IF sh.notes.ssap.kind = "None" \/ sh.notes.ssap.val = 0
    THEN {[kind |-> "panic", segs |-> <<>>]}
    ELSE IF Len(co.loads) > 0 /\ ~SegmentNewAsserts(sh.slot.start)
    THEN {[kind |-> "panic", segs |-> <<>>]}
    ELSE SortAndCheck(CollectSegs(sh, co))

(***************************************************************************)
(* Backend::build: construction, measurement, signature.                   *)
(***************************************************************************)
\* AddPages::new: bit 0 of the flags word of the descriptor.
MEASURE == 1

\* AddPages::new(data, offset, secinfo, flags): the descriptor handed to the
\* ENCLAVE_ADD_PAGES ioctl (the source pointer is left out).
AddPagesNew(pages, offset, secinfo, flags) ==
    [offset |-> offset, length |-> pages * PAGE_SIZE, secinfo |-> secinfo,
     flags |-> IF "Measure" \in flags THEN MEASURE ELSE 0, count |-> 0]

NoArg == [offset |-> 0, length |-> 0,
          secinfo |-> [class |-> "None", flags |-> {}], flags |-> 0,
          count |-> 0]

\* The hardware operation behind each Builder call: Builder::new creates
\* the enclave, Builder::load adds the pages of one segment, Builder::build
\* initializes the enclave.
BuilderIssues(call, seg, ok) ==
    CASE call = "new" -> [op |-> "create", arg |-> NoArg, ok |-> ok]
      [] call = "load" ->
            [op |-> "add",
             arg |-> AddPagesNew(seg.pages, seg.vpage * PAGE_SIZE, seg.sinfo,
                                 seg.flags),
             ok |-> ok]
      [] call = "build" -> [op |-> "init", arg |-> NoArg, ok |-> ok]

\* builder.load(&seg.pages, seg.vpage, seg.sinfo, seg.flags)
BuilderLoadArgs(seg) ==
    [pages |-> seg.pages, vpage |-> seg.vpage, sinfo |-> seg.sinfo,
     flags |-> seg.flags]
\* Variant: the Hasher is told that every load is measured.
HasherLoadArgs_AlwaysMeasured(seg) ==
    [pages |-> seg.pages, vpage |-> seg.vpage, sinfo |-> seg.sinfo,
     flags |-> {"Measure"}]

\* hasher.load(seg.pages, seg.vpage, seg.sinfo, seg.flags)
HasherLoadArgs(seg) ==
    [pages |-> seg.pages, vpage |-> seg.vpage, sinfo |-> seg.sinfo,
     flags |-> seg.flags]

\* Variant: the failed step is tried again.
ReturnErr_Retries(step) ==
    /\ bpc' = bpc
    /\ bret' = bret
    /\ failed' = step

\* The `?` of build: the error is returned at once.
ReturnErr(step) ==
    /\ bpc' = "done"
    /\ bret' = "Err"
    /\ failed' = step

\* Variant: the enclave is built right after the last load.
LoopOrKeygen_InitFirst(i) == IF i <= Len(segs) THEN "builder_load" ELSE "init"

\* Position after a step of the loop body or before the loop: the next
\* segment if the iterator has one, otherwise the key generation.
LoopOrKeygen(i) == IF i <= Len(segs) THEN "builder_load" ELSE "keygen"

BuildInit ==
    /\ ThreadIdle
    /\ ExtraIdle
    /\ shim \in ShimComponents
    /\ code \in CodeComponents
    /\ bpc = "start"
    /\ segs = <<>>
    /\ idx = 1
    /\ builder = <<>>
    /\ hasher = <<>>
    /\ measure = "none"
    /\ hw = <<>>
    /\ bret = "none"
    /\ failed = "none"

\* build, lines 126-150: slot, notes, segments, sort, overlap check.
BuildLayout ==
    /\ bpc = "start"
    /\ \E r \in Layout(shim, code) :
          /\ segs' = r.segs
          /\ bpc' = IF r.kind = "Ok" THEN "create" ELSE "done"
          /\ bret' = IF r.kind = "Ok" THEN "none" ELSE r.kind
          /\ failed' = IF r.kind = "Err" THEN "note" ELSE "none"
    /\ UNCHANGED <<shim, code, idx, builder, hasher, measure, hw>>
    /\ UNCHANGED tvars
    /\ UNCHANGED xvars

\* build, lines 153-155: Builder::new(..)? and Hasher::new(..).
BuildCreate ==
    /\ bpc = "create"
    /\ \E ok \in BOOLEAN :
        /\ hw' = Append(hw, BuilderIssues("new", <<>>, ok))
        /\ IF ok
           THEN /\ measure' = "open"
                /\ bpc' = LoopOrKeygen(1)
                /\ UNCHANGED <<bret, failed>>
           ELSE /\ ReturnErr("create")
                /\ measure' = measure
    /\ UNCHANGED <<shim, code, segs, idx, builder, hasher>>
    /\ UNCHANGED tvars
    /\ UNCHANGED xvars

\* build, line 159: builder.load(..)?
BuildBuilderLoad ==
    /\ bpc = "builder_load"
    /\ \E ok \in BOOLEAN :
        /\ hw' = Append(hw, BuilderIssues("load", segs[idx], ok))
        /\ IF ok
           THEN /\ builder' = Append(builder, BuilderLoadArgs(segs[idx]))
                /\ bpc' = "hasher_load"
                /\ UNCHANGED <<bret, failed>>
           ELSE /\ ReturnErr("add")
                /\ builder' = builder
    /\ UNCHANGED <<shim, code, segs, idx, hasher, measure>>
    /\ UNCHANGED tvars
    /\ UNCHANGED xvars

\* build, line 160: hasher.load(..)?, then the next iteration.
BuildHasherLoad ==
    /\ bpc = "hasher_load"
    /\ \E ok \in BOOLEAN :
        IF ok
        THEN /\ hasher' = Append(hasher, HasherLoadArgs(segs[idx]))
             /\ idx' = idx + 1
             /\ bpc' = LoopOrKeygen(idx + 1)
             /\ UNCHANGED <<bret, failed>>
        ELSE /\ ReturnErr("hasher")
             /\ UNCHANGED <<hasher, idx>>
    /\ UNCHANGED <<shim, code, segs, builder, measure, hw>>
    /\ UNCHANGED tvars
    /\ UNCHANGED xvars

\* build, lines 164-165: Rsa::generate_with_e(3072, &exp)?
BuildKeygen ==
    /\ bpc = "keygen"
    /\ \E ok \in BOOLEAN :
        IF ok
        THEN /\ bpc' = "finish"
             /\ UNCHANGED <<bret, failed>>
        ELSE ReturnErr("keygen")
    /\ UNCHANGED <<shim, code, segs, idx, builder, hasher, measure, hw>>
    /\ UNCHANGED tvars
    /\ UNCHANGED xvars

\* build, line 169: hasher.finish()
BuildFinish ==
    /\ bpc = "finish"
    /\ measure' = "finished"
    /\ bpc' = "sign"
    /\ UNCHANGED <<shim, code, segs, idx, builder, hasher, hw, bret, failed>>
    /\ UNCHANGED tvars
    /\ UNCHANGED xvars

\* build, line 169: .sign(vendor, key)?
BuildSign ==
    /\ bpc = "sign"
    /\ \E ok \in BOOLEAN :
        IF ok
        THEN /\ measure' = "signed"
             /\ bpc' = "init"
             /\ UNCHANGED <<bret, failed>>
        ELSE /\ ReturnErr("sign")
             /\ measure' = measure
    /\ UNCHANGED <<shim, code, segs, idx, builder, hasher, hw>>
    /\ UNCHANGED tvars
    /\ UNCHANGED xvars

\* build, line 172: Ok(builder.build(&signature)?)
BuildInitialize ==
    /\ bpc = "init"
    /\ \E ok \in BOOLEAN :
        /\ hw' = Append(hw, BuilderIssues("build", <<>>, ok))
        /\ IF ok
           THEN /\ bpc' = "done"
                /\ bret' = "Ok"
                /\ failed' = failed
           ELSE ReturnErr("init")
    /\ UNCHANGED <<shim, code, segs, idx, builder, hasher, measure>>
    /\ UNCHANGED tvars
    /\ UNCHANGED xvars

BuildNext ==
    \/ BuildLayout
    \/ BuildCreate
    \/ BuildBuilderLoad
    \/ BuildHasherLoad
    \/ BuildKeygen
    \/ BuildFinish
    \/ BuildSign
    \/ BuildInitialize

ThreadNext ==
    \/ ThreadEnterCall
    \/ ProxyWrite
    \/ ThreadEnterReturn
    \/ HostService

\* One call of Backend::build on any pair of images.
SpecBuild == BuildInit /\ [][BuildNext]_vars

\* One spawned thread driven by its caller.
SpecThread == ThreadInit /\ [][ThreadNext]_vars

(***************************************************************************)
(* Properties of Thread::enter, checked under SpecThread.                  *)
(***************************************************************************)
\* A step in which a call of Thread::enter leaves the hardware and ends, by
\* returning or by panicking.
EnterEnds == pc = "inside" /\ pc' # "inside"
\* A step in which a call of Thread::enter returns to its caller.
EnterReturns == pc = "inside" /\ pc' = "idle"
CleanReturn == outcome'.kind = "Ok"
ProxyTrap == outcome'.kind = "Err" /\ outcome'.trap = InvalidOpcode
OtherTrap == outcome'.kind = "Err" /\ outcome'.trap # InvalidOpcode

\* C1: for a thread spawned with mode Enter and depth 0, the depth counter is
\* always a non-negative integer equal to N - M, N the number of calls whose
\* resulting mode was Enter and M <= N the number whose resulting mode was
\* Resume, and every call that returns changes it by exactly one.
C1_DepthIsEntersMinusResumes ==
    /\ [](cssa \in Nat /\ nResume <= nEnter /\ cssa = nEnter - nResume)
    /\ [][EnterReturns => (cssa' = cssa + 1 \/ cssa' = cssa - 1)]_vars

C1_Witness ==
    /\ pc = "idle"
    /\ nEnter = 2
    /\ nResume = 1
    /\ cssa = 1

\* C2: the new mode and the depth change follow from the reported outcome
\* alone, whatever the previous mode: a clean return sets the mode to Resume
\* and decrements the depth by one (at depth 0 the call aborts instead, see
\* C3); an InvalidOpcode exit sets the mode to Enter and increments the
\* depth by one.
C2_ModeFollowsOutcome ==
    [][EnterEnds =>
         /\ CleanReturn =>
              /\ how' = Resume
              /\ IF cssa = 0 THEN pc' = "panicked" /\ cssa' = cssa
                 ELSE cssa' = cssa - 1
         /\ ProxyTrap => (how' = Enter /\ cssa' = cssa + 1 /\ pc' = "idle")]_vars

\* A clean return taken in mode Resume: the same result as in mode Enter.
C2_Witness ==
    /\ pc = "idle"
    /\ prev = Resume
    /\ outcome.kind = "Ok"
    /\ how = Resume
    /\ nResume = 2
    /\ cssa = 0

\* C3: a clean return reported at depth 0 aborts the call: no command is
\* returned and the counter is not decremented, so it never goes below zero;
\* this includes the first entry of a freshly spawned thread.
C3_CleanReturnAtZeroAborts ==
    /\ [](cssa >= 0)
    /\ [][(EnterEnds /\ CleanReturn /\ cssa = 0) =>
            (pc' = "panicked" /\ ret' = "panic" /\ cssa' = 0)]_vars

C3_Witness ==
    /\ pc = "panicked"
    /\ ret = "panic"
    /\ outcome.kind = "Ok"
    /\ prev = Enter
    /\ cssa = 0
    /\ nEnter = 0
    /\ nResume = 0

\* The state of the thread before its first call.
Fresh == nEnter = 0 /\ nResume = 0 /\ how = Enter /\ cssa = 0

\* C4 as stated: starting from mode Enter, a clean return gives mode Resume
\* with depth 1; an InvalidOpcode exit reported to the next call gives mode
\* Enter with depth 0 and the request is decoded at that step.
C4_ScenarioAsStated ==
    [][/\ (Fresh /\ EnterEnds /\ CleanReturn) =>
            (pc' = "idle" /\ how' = Resume /\ cssa' = 1)
       /\ (how = Resume /\ cssa = 1 /\ nEnter + nResume = 1 /\ EnterEnds
             /\ ProxyTrap) =>
            (how' = Enter /\ cssa' = 0 /\ decoded')]_vars

\* C4 amended: starting from mode Enter with depth 0, an InvalidOpcode exit
\* leaves the mode Enter with depth 1 and Continue is returned without
\* decoding; a clean return reported to the next call gives mode Resume with
\* depth 0 and the request is decoded at that step.
C4_ScenarioAmended ==
    [][/\ (Fresh /\ EnterEnds /\ ProxyTrap) =>
            /\ pc' = "idle"
            /\ how' = Enter
            /\ cssa' = 1
            /\ ~decoded'
            /\ ret' = "Continue"
       /\ (how = Enter /\ cssa = 1 /\ nEnter = 1 /\ nResume = 0 /\ EnterEnds
             /\ CleanReturn) =>
            (how' = Resume /\ cssa' = 0 /\ decoded')]_vars

C4_Witness ==
    /\ nEnter = 1
    /\ nResume = 1
    /\ prev = Enter
    /\ how = Resume
    /\ cssa = 0
    /\ decoded
    /\ outcome.kind = "Ok"

\* C5: an asynchronous exit with any trap other than InvalidOpcode aborts
\* the call: no command is returned, mode and depth are left as they were,
\* and the thread is not entered again.
C5_OtherTrapAborts ==
    [][/\ (EnterEnds /\ OtherTrap) =>
            /\ pc' = "panicked"
            /\ ret' = "panic"
            /\ how' = how
            /\ cssa' = cssa
       /\ pc = "panicked" => pc' = "panicked"]_vars

C5_Witness ==
    /\ pc = "panicked"
    /\ outcome.kind = "Err"
    /\ outcome.trap = Page
    /\ nEnter = 1

\* C6: a call decodes the request, and may return SysCall, only when the
\* previous mode was Enter and the new mode is Resume; a call that returns
\* with any other pair returns Continue and leaves the block as it was.
C6_DecodeOnlyOnEnterToResume ==
    [][EnterEnds =>
         /\ (decoded' \/ ret' = "SysCall") => (prev = Enter /\ how' = Resume)
         /\ (pc' = "idle" /\ ~(prev = Enter /\ how' = Resume)) =>
              (ret' = "Continue" /\ ~decoded' /\ block' = block)]_vars

\* A request is in the block, and the call returned Continue without
\* decoding it.
C6_Witness ==
    /\ pc = "idle"
    /\ ret = "Continue"
    /\ ~decoded
    /\ prev = Resume
    /\ how = Resume
    /\ ReqNum(block) = W(0, 1)

\* C7: a decoded request whose number is SYS_ENARX_CPUID or SYS_ENARX_GETATT
\* is serviced by the call itself and never returned as SysCall; a decoded
\* request with any other number is returned as SysCall with the block
\* untouched.
C7_InternalRequestsNotSurfaced ==
    [][(EnterEnds /\ decoded') =>
         /\ ReqNum(block) = W(0, SYS_ENARX_CPUID) =>
              /\ ret' \in {"Continue", "panic"}
              /\ ret' = "Continue" =>
                   \E c \in CpuidResults : block' = Cpuid(block, c).block
         /\ ReqNum(block) = W(0, SYS_ENARX_GETATT) =>
              /\ ret' \in {"Continue", "Err"}
              /\ ret' = "Continue" =>
                   \E a \in AttResults : a.ok /\ block' = Attest(block, a).block
         /\ ReqNum(block) \notin {W(0, SYS_ENARX_CPUID), W(0, SYS_ENARX_GETATT)} =>
              (ret' = "SysCall" /\ pc' = "idle" /\ block' = block)]_vars

C7_Witness ==
    /\ pc = "idle"
    /\ decoded
    /\ ret = "Continue"
    /\ ReqArg(block, 0) = W(0, 11)
    /\ ReqNum(block) = W(0, SYS_ENARX_CPUID)

(***************************************************************************)
(* Properties of Backend::build, checked under SpecBuild.                  *)
(***************************************************************************)
IsPrefix(a, b) == Len(a) <= Len(b) /\ SubSeq(b, 1, Len(a)) = a

\* C8: the loads given to the Hasher are at every point a prefix of the
\* loads given to the Builder, behind by at most the one segment being
\* loaded, and both sequences are the same, in the same order, when
\* hasher.finish() is called.
C8_HasherMirrorsBuilder ==
    /\ IsPrefix(hasher, builder)
    /\ Len(builder) <= Len(hasher) + 1
    /\ Len(builder) = Len(hasher) + 1 =>
         /\ idx = Len(builder)
         /\ bpc = "hasher_load" \/ (bpc = "done" /\ failed = "hasher")
    /\ (bpc = "finish" \/ measure \in {"finished", "signed"}) =>
         (hasher = builder /\ Len(hasher) = Len(segs))

\* The digest is finished over three segments, one of them unmeasured.
C8_Witness ==
    /\ measure = "finished"
    /\ Len(hasher) = 3
    /\ hasher[2].flags = {}
    /\ hasher[3].sinfo.class = "Reg"

\* C9: the hardware operations of a build are one create, then page-adds,
\* then at most one initialize, which is the last operation; initialize is
\* issued only once the measurement is finished and signed.
C9_CreateAddsThenInit ==
    \A i \in 1..Len(hw) :
        /\ (hw[i].op = "create") <=> (i = 1)
        /\ (i > 1 /\ i < Len(hw)) => hw[i].op = "add"
        /\ hw[i].op \in {"create", "add", "init"}
        /\ hw[i].op = "init" => (i = Len(hw) /\ measure = "signed")
        /\ i < Len(hw) => hw[i].ok

C9_Witness ==
    /\ bret = "Ok"
    /\ Len(hw) = 4
    /\ hw[2].op = "add"
    /\ hw[3].op = "add"
    /\ hw[4].op = "init"

\* C10: when a step of build fails, build returns the error, returns no
\* enclave, issues no further hardware operation and does not try the step
\* again.
C10_FailureAbandonsBuild ==
    /\ [](/\ failed # "none" => (bpc = "done" /\ bret = "Err")
          /\ bret = "Err" => failed # "none"
          /\ \A i \in 1..Len(hw) :
                ~hw[i].ok => (i = Len(hw) /\ bret = "Err"
                                /\ failed \in {"create", "add", "init"})
          /\ bret = "Ok" => (failed = "none" /\ hw[Len(hw)].op = "init"))
    /\ [][failed # "none" => UNCHANGED <<hw, bpc, bret, builder, hasher>>]_vars

\* The second page-add failed.
C10_Witness ==
    /\ failed = "add"
    /\ bret = "Err"
    /\ Len(hw) = 3
    /\ ~hw[3].ok
    /\ Len(builder) = 1

\* The pages a segment covers.
PagesOf(seg) == seg.vpage .. (seg.vpage + seg.pages - 1)
\* Two segments of the list share a page.
SharesPage(s) ==
    \E i, j \in 1..Len(s) : i # j /\ PagesOf(s[i]) \cap PagesOf(s[j]) # {}
\* The segment list has been handed on towards the Builder.
PastLayout == bpc \notin {"idle", "start"} /\ (bpc = "done" => hw # <<>>)

\* C11: every segment list that reaches the Builder is pairwise
\* non-overlapping: it is ordered by first page and any segment that comes
\* before another ends at or before the page where the other starts; and a
\* build whose shim and code segments share a page never reaches the Builder
\* and does not succeed.
C11_SegmentsPairwiseDisjoint ==
    /\ PastLayout =>
          /\ \A i, j \in 1..Len(segs) :
                i < j => /\ segs[i].vpage <= segs[j].vpage
                         /\ segs[i].vpage + segs[i].pages <= segs[j].vpage
          /\ ~SharesPage(segs)
    /\ SharesPage(CollectSegs(shim, code)) =>
          /\ hw = <<>> /\ builder = <<>> /\ bret # "Ok"
          /\ bpc \in {"start", "done"}
          /\ bpc = "done" => bret \in {"panic", "Err"}
C11_Witness ==
    /\ bpc = "create"
    /\ Len(segs) = 3
    /\ Len(shim.loads) = 2
    /\ shim.loads[1].vaddr > shim.loads[2].vaddr
    /\ segs[3].vpage >= 4

(***************************************************************************)
(* Further properties of Thread::enter, checked under SpecThread.          *)
(***************************************************************************)
\* C17: at every hardware entry made by Thread::enter the rdi slot of the
\* register set holds the address of this thread's block, whatever the
\* enclave left in the registers on an earlier exit, and the mode handed to
\* the hardware is the mode recorded by the previous call (Enter on the
\* first call).
C17_EntryPassesBlockAndRecordedMode ==
    /\ [](pc = "inside" => registers.rdi = BlockAddr /\ prev = how)
    /\ [][pc = "idle" /\ pc' = "inside" =>
            /\ registers'.rdi = BlockAddr
            /\ prev' = how
            /\ (nEnter + nResume = 0 => prev' = Enter)]_vars
C17_Witness ==
    /\ pc = "inside"
    /\ prev = Resume
    /\ registers.rsi = 5
    /\ registers.rdi = BlockAddr
    /\ nEnter + nResume >= 2

(***************************************************************************)
(* Further properties of Backend::build, checked under SpecBuild.          *)
(***************************************************************************)
\* The three fatal layout defects of a pair of images: the code image is
\* larger than its slot, a code segment is relocated by an offset that is
\* not a whole number of pages, two segments share a page.
CodeTooLarge == shim.slot.has /\ RegionCount(code) > shim.slot.count
MisalignedRelocation ==
    shim.slot.has /\ Len(code.loads) > 0 /\ shim.slot.start % PAGE_SIZE # 0
LayoutDefect ==
    CodeTooLarge \/ MisalignedRelocation \/ SharesPage(CollectSegs(shim, code))

\* C20: every fatal layout check of build (code fits its slot, page-aligned
\* relocation, no overlap) is evaluated before the hardware enclave is
\* created: a build that panics has issued no hardware operation and loaded
\* nothing, and a pair of images with a layout defect never has an enclave
\* created or a page added.
C20_LayoutChecksBeforeCreate ==
    /\ bret = "panic" =>
          hw = <<>> /\ builder = <<>> /\ hasher = <<>> /\ measure = "none"
    /\ LayoutDefect =>
          /\ hw = <<>> /\ builder = <<>> /\ hasher = <<>> /\ measure = "none"
          /\ bpc \in {"start", "done"}
          /\ bret # "Ok"
C20_Witness ==
    /\ bpc = "done"
    /\ bret = "panic"
    /\ hw = <<>>
    /\ CodeTooLarge
    /\ shim.notes.size.kind = "Some" /\ shim.notes.ssap.kind = "Some"
    /\ shim.notes.ssap.val > 0

(***************************************************************************)
(* enclave::Thread::enter as a function of what the vDSO call reports.     *)
(***************************************************************************)
\* Reports of the vDSO call, including function codes that are neither an
\* entry nor an exit.
EntryRuns ==
    HwReports \cup
    {[rax |-> 0, function |-> f, vector |-> InvalidOpcode, code |-> 0,
      addr |-> 0] : f \in {0, 1, 5}}

EntryInit ==
    /\ inRun \in EntryRuns
    /\ inHow \in {Enter, Resume}
    /\ outEnter = [kind |-> "pending", last |-> 0, trap |-> 0, code |-> 0,
                   addr |-> 0]
    /\ ThreadIdle
    /\ BuildIdle
    /\ SegmentIdle
    /\ ShimIdle

\* One call of enclave::Thread::enter(how, registers).
EnclaveEnterCall ==
    /\ outEnter.kind = "pending"
    /\ outEnter' = EnclaveThreadEnter(inRun)
    /\ UNCHANGED <<inRun, inHow, svars, hvars, tvars, bvars>>

EntryNext == EnclaveEnterCall

SpecEntry == EntryInit /\ [][EntryNext]_vars

\* C16: enclave::Thread::enter returns success exactly when the call
\* returned 0 and the reported function is 4 (exit); for (0, 2) and (0, 3)
\* it returns an exception record whose prior mode is the reported function
\* (Enter for 2, Resume for 3) together with the reported vector, error code
\* and address; every other combination aborts.
C16_EntryResultFromReport ==
    outEnter.kind # "pending" =>
        /\ outEnter.kind = "Ok" <=> (inRun.rax = 0 /\ inRun.function = 4)
        /\ outEnter.kind = "Err" <=> (inRun.rax = 0 /\ inRun.function \in {2, 3})
        /\ outEnter.kind = "Err" =>
              /\ outEnter.last = (IF inRun.function = 2 THEN Enter ELSE Resume)
              /\ outEnter.trap = inRun.vector
              /\ outEnter.code = inRun.code
              /\ outEnter.addr = inRun.addr
        /\ outEnter.kind = "Abort" <=>
              ~(inRun.rax = 0 /\ inRun.function \in {2, 3, 4})
C16_Witness ==
    /\ outEnter.kind = "Err"
    /\ outEnter.last = Resume
    /\ outEnter.trap = Page
    /\ outEnter.addr = PAGE_SIZE
    /\ inHow = Resume

(***************************************************************************)
(* Segment::new as a function of a program header and a relocation.        *)
(***************************************************************************)
\* The flags a header may carry, by name, and the p_flags word that has
\* exactly the named bits set.
FlagNames == {"R", "W", "X", "TCS", "UNMEASURED"}
FlagBit(n) ==
    CASE n = "R" -> PF_R
      [] n = "W" -> PF_W
      [] n = "X" -> PF_X
      [] n = "TCS" -> PF_ENARX_SGX_TCS
      [] n = "UNMEASURED" -> PF_ENARX_SGX_UNMEASURED
RECURSIVE FlagsWord(_)
FlagsWord(names) ==
    IF names = {} THEN 0
    ELSE LET n == CHOOSE x \in names : TRUE
         IN FlagBit(n) + FlagsWord(names \ {n})

\* Relocation offsets: none, a whole number of pages, and two that are not.
Relocations == {0, 4 * PAGE_SIZE, 4 * PAGE_SIZE + 8, PAGE_SIZE - 1}

SegmentInit ==
    /\ \E ns \in SUBSET FlagNames, va \in {0, PAGE_SIZE + 16} :
          inPhdr = [vaddr |-> va, memsz |-> PAGE_SIZE,
                    flags |-> FlagsWord(ns), names |-> ns]
    /\ inRelocate \in Relocations
    /\ outSeg = [state |-> "pending"]
    /\ ThreadIdle
    /\ BuildIdle
    /\ EntryIdle
    /\ ShimIdle

\* One call of Segment::new(component, phdr, relocate).
SegmentNewCall ==
    /\ outSeg.state = "pending"
    /\ outSeg' = IF SegmentNewAsserts(inRelocate)
                 THEN [state |-> "Ok", seg |-> SegmentNew(inPhdr, inRelocate)]
                 ELSE [state |-> "panic"]
    /\ UNCHANGED <<inPhdr, inRelocate, evars, hvars, tvars, bvars>>

SegmentNext == SegmentNewCall

SpecSegment == SegmentInit /\ [][SegmentNext]_vars

\* The access flags named by a header.
AccessOf(names) ==
    {b \in {PF_R, PF_W, PF_X} :
        \E n \in names \cap {"R", "W", "X"} : FlagBit(n) = b}

\* C18: Segment::new gives the segment the class Tcs exactly when the header
\* has the TCS flag, and otherwise the class Regular with access flags equal
\* to the header's read/write/execute bits; the segment is measured unless
\* the header has the unmeasured flag; and the call aborts when the
\* relocation offset is not a multiple of the page size.
C18_SegmentClassFlagsMeasure ==
    outSeg.state # "pending" =>
        /\ outSeg.state = "panic" <=> inRelocate % PAGE_SIZE # 0
        /\ outSeg.state = "Ok" =>
              /\ outSeg.seg.sinfo.class = "Tcs" <=> "TCS" \in inPhdr.names
              /\ "TCS" \notin inPhdr.names =>
                    /\ outSeg.seg.sinfo.class = "Reg"
                    /\ outSeg.seg.sinfo.flags = AccessOf(inPhdr.names)
              /\ "Measure" \in outSeg.seg.flags <=>
                    "UNMEASURED" \notin inPhdr.names
C18_Witness ==
    /\ outSeg.state = "Ok"
    /\ inPhdr.names = {"R", "W", "UNMEASURED"}
    /\ outSeg.seg.sinfo = [class |-> "Reg", flags |-> {PF_R, PF_W}]
    /\ outSeg.seg.flags = {}
    /\ inRelocate = 4 * PAGE_SIZE

(***************************************************************************)
(* The in-enclave handler (shim-sgx, handler/base.rs) together with the    *)
(* host-side Thread::enter that drives it.                                 *)
(***************************************************************************)
\* Variant: the reply is read before the acquire fence.
ProxyProgram_LoadBeforeAcquire ==
    <<"store", "release", "syscall", "load", "acquire">>
\* Variant: the request is stored only after the forced exit.
ProxyProgram_StoreAfterExit ==
    <<"release", "syscall", "store", "acquire", "load">>

\* The statements of proxy in program order: self.block.msg.req = req;
\* compiler_fence(Release); asm!("syscall"); compiler_fence(Acquire);
\* self.block.msg.rep.
ProxyProgram == <<"store", "release", "syscall", "acquire", "load">>

\* self.block.msg.rep: the reply view of the message union.
RepOf(b) == [ret0 |-> b[0], ret1 |-> b[1], err |-> b[2]]

\* What the hardware reports when the enclave executes the syscall
\* instruction (an invalid-opcode exception during an entry made in the
\* given mode) and when the enclave leaves with EEXIT.
TrapReport(mode) ==
    [rax |-> 0, function |-> mode, vector |-> InvalidOpcode, code |-> 0,
     addr |-> 0]
ExitReport ==
    [rax |-> 0, function |-> EEXIT, vector |-> 0, code |-> 0, addr |-> 0]

\* The next position in proxy after the statement at position i.
AfterStatement(i) ==
    IF i = Len(ProxyProgram) THEN [site |-> "run", pi |-> 0]
    ELSE [site |-> "proxy", pi |-> i + 1]

\* What the host has written into the block for the current request: the
\* words of a reply (self.block.msg.rep = .., words 0..2), and the words of
\* the four results of cpuid (req.arg[0..3], words 1..4).
WroteReply(r) ==
    [words |-> 0..2,
     img |-> [BlockDefault EXCEPT ![0] = r.ret0, ![1] = r.ret1, ![2] = r.err]]
WroteCpuid(c) ==
    [words |-> 1..4,
     img |-> [BlockDefault EXCEPT ![1] = W(0, c.eax), ![2] = W(0, c.ebx),
                                  ![3] = W(0, c.ecx), ![4] = W(0, c.edx)]]

\* The caller of a thread whose enclave runs the handler calls enter.
ShimEnterCall == EnterCall(MaxShimCalls)

\* The handler calls proxy(req).
ShimProxyCall ==
    /\ pc = "inside"
    /\ esite = "run"
    /\ \E r \in Requests : ereq' = r
    /\ esite' = "proxy"
    /\ epi' = 1
    /\ ptrace' = <<>>
    /\ hostRep' = WroteNothing
    /\ UNCHANGED <<erep, tripped, postTrip, lastPost>>
    /\ UNCHANGED <<tvars, bvars, evars, svars>>

\* proxy executes its next statement, when that is the store of the
\* request, one of the two fences, or the read of the reply.
ShimProxyStep ==
    /\ pc = "inside"
    /\ esite = "proxy"
    /\ LET op == ProxyProgram[epi]
       IN /\ op # "syscall"
          /\ block' = IF op = "store" THEN WriteReq(block, ereq) ELSE block
          /\ erep' = IF op = "load" THEN RepOf(block) ELSE erep
          /\ ptrace' = Append(ptrace, op)
    /\ esite' = AfterStatement(epi).site
    /\ epi' = AfterStatement(epi).pi
    /\ UNCHANGED <<how, cssa, registers, pc, prev, ret, decoded, outcome,
                   nEnter, nResume, nSysCall>>
    /\ UNCHANGED <<ereq, hostRep, tripped, postTrip, lastPost>>
    /\ UNCHANGED <<bvars, evars, svars>>

\* proxy executes asm!("syscall"): the instruction is illegal inside the
\* enclave, the hardware leaves it and the host's call of Thread::enter
\* handles the exception.
ShimProxyTrap ==
    /\ pc = "inside"
    /\ esite = "proxy"
    /\ ProxyProgram[epi] = "syscall"
    /\ \E out \in RegsOut, c \in CpuidResults, a \in AttResults :
          ReturnFromHardware(TrapReport(prev), out, c, a)
    /\ esite' = "trapped"
    /\ ptrace' = Append(ptrace, "syscall")
    /\ UNCHANGED <<prev, epi, ereq, erep, hostRep, tripped, postTrip,
                   lastPost>>
    /\ UNCHANGED <<bvars, evars, svars>>

\* The host has entered anew after the exception: the enclave leaves at
\* once with EEXIT, and the host's call of Thread::enter evaluates the
\* block; what Thread::cpuid or Thread::attest then writes is noted.
ShimNestedExit ==
    /\ pc = "inside"
    /\ esite = "trapped"
    /\ prev = Enter
    /\ \E out \in RegsOut, c \in CpuidResults, a \in AttResults :
          /\ ReturnFromHardware(ExitReport, out, c, a)
          /\ hostRep' =
               IF decoded' /\ pc' = "idle" /\ ret' = "Continue"
               THEN IF Dispatch(ReqNum(block)) = "cpuid" THEN WroteCpuid(c)
                    ELSE WroteReply([ret0 |-> a.val, ret1 |-> Zero,
                                     err |-> Zero])
               ELSE hostRep
    /\ esite' = "parked"
    /\ UNCHANGED <<prev, epi, ereq, erep, ptrace, tripped, postTrip,
                   lastPost>>
    /\ UNCHANGED <<bvars, evars, svars>>

\* The caller services a SysCall command: it writes the reply into the
\* block before it calls enter again.
ShimHostService ==
    /\ pc = "idle"
    /\ ret = "SysCall"
    /\ \E r \in HostReplies :
          /\ block' = WriteRep(block, r)
          /\ hostRep' = WroteReply(r)
    /\ UNCHANGED <<how, cssa, registers, pc, prev, ret, decoded, outcome,
                   nEnter, nResume, nSysCall>>
    /\ UNCHANGED <<esite, epi, ereq, erep, ptrace, tripped, postTrip,
                   lastPost>>
    /\ UNCHANGED <<bvars, evars, svars>>

\* The host has resumed the interrupted context: proxy continues behind the
\* syscall instruction.
ShimResume ==
    /\ pc = "inside"
    /\ esite = "parked"
    /\ prev = Resume
    /\ esite' = AfterStatement(epi).site
    /\ epi' = AfterStatement(epi).pi
    /\ ptrace' = Append(ptrace, "resume")
    /\ UNCHANGED <<ereq, erep, hostRep, tripped, postTrip, lastPost>>
    /\ UNCHANGED <<tvars, bvars, evars, svars>>

ShimNext ==
    \/ ShimEnterCall
    \/ ShimProxyCall
    \/ ShimProxyStep
    \/ ShimProxyTrap
    \/ ShimNestedExit
    \/ ShimHostService
    \/ ShimResume

\* One spawned thread whose enclave runs the handler.
SpecShim == ThreadInit /\ [][ShimNext]_vars

(***************************************************************************)
(* Properties of the handler and of the block handoff, checked under       *)
(* SpecShim.                                                               *)
(***************************************************************************)
\* What one complete call of proxy goes through, in order.
ProxyOrder == <<"store", "release", "syscall", "resume", "acquire", "load">>
\* The step in which proxy does the thing named e.
ProxyDoes(e) == ptrace' = Append(ptrace, e)
\* The step in which proxy returns to the handler.
ProxyReturns == esite = "proxy" /\ esite' = "run"

\* C12: within one call of proxy(request) the steps occur in this order: the
\* request is written into the shared block, the release fence, the forced
\* exit, the resumption, the acquire fence, and only then the read of the
\* block's reply field, which is what proxy returns.  The forced exit is a
\* hardware exit reporting the illegal instruction, and the enclave does not
\* touch the block between the release fence and the acquire fence.
C12_ProxyStepsInOrder ==
    /\ [](IsPrefix(ptrace, ProxyOrder))
    /\ [][/\ ProxyReturns => ptrace' = ProxyOrder /\ erep' = RepOf(block)
          /\ ProxyDoes("store") => ptrace = <<>> /\ block' = WriteReq(block, ereq)
          /\ ProxyDoes("syscall") =>
                /\ pc = "inside" /\ pc' # "inside"
                /\ outcome'.kind = "Err" /\ outcome'.trap = InvalidOpcode
                /\ block' = block
          /\ ProxyDoes("resume") => pc = "inside" /\ prev = Resume
          /\ ProxyDoes("load") =>
                /\ ptrace[Len(ptrace)] = "acquire"
                /\ erep' = RepOf(block)
                /\ ProxyReturns]_vars
C12_Witness ==
    /\ ptrace = ProxyOrder
    /\ esite = "run"
    /\ ereq.num = W(0, 1)
    /\ erep = [ret0 |-> W(0, 9), ret1 |-> Zero, err |-> Zero]

\* Word i (0..2) of a reply: ret[0], ret[1], err.
RepWord(r, i) == IF i = 0 THEN r.ret0 ELSE IF i = 1 THEN r.ret1 ELSE r.err

\* The ownership of the block in one step.  The enclave writes the block
\* only while it is executing, and then only by proxy's store of the
\* request; the host writes into it only between a hardware exit and the
\* next hardware entry; the request the host evaluates is the one proxy
\* stored; and what the host writes for a request stands in the block, the
\* other words keeping their values.
BlockOwnership ==
    /\ block' # block =>
          \/ /\ pc = "inside" /\ pc' = "inside"
             /\ ProxyDoes("store")
             /\ block' = WriteReq(block, ereq)
          \/ pc = "inside" /\ pc' = "idle" /\ decoded'
          \/ /\ pc = "idle" /\ pc' = "idle" /\ ret = "SysCall"
             /\ \E r \in HostReplies : block' = WriteRep(block, r)
    /\ decoded' /\ ~decoded =>
          /\ pc = "inside" /\ pc' # "inside"
          /\ block = WriteReq(block, ereq)
          /\ ptrace = <<"store", "release", "syscall">>
    /\ hostRep' # hostRep /\ hostRep'.words # {} =>
          /\ pc' = "idle"
          /\ \A i \in MsgWords :
                block'[i] = IF i \in hostRep'.words THEN hostRep'.img[i]
                            ELSE block[i]

\* C13 as stated: the ownership of the block alternates, and when the host
\* has handled the request, the reply that proxy returns is the value the
\* host wrote for it: each of its three words was written by the host.
C13_AsStated ==
    [][/\ BlockOwnership
       /\ ProxyDoes("load") /\ hostRep.words # {} =>
             \A i \in 0..2 :
                /\ i \in hostRep.words
                /\ RepWord(erep', i) = hostRep.img[i]]_vars

\* C13 amended: the shared block carries one request/reply pair at a time
\* and its ownership alternates, as above; each word of the reply that proxy
\* returns is the word the host wrote there for that request while the
\* enclave was not executing, if it wrote that word, and otherwise the word
\* that proxy itself stored with the request.  The caller's reply and the
\* attestation reply cover the three words; the CPU-id passthrough writes
\* words 1..4, so the reply then reads (request number, eax, ebx).
C13_ReplyIsBlockAsHostLeftIt ==
    /\ [][/\ BlockOwnership
          /\ ProxyDoes("load") =>
                \A i \in 0..2 :
                   RepWord(erep', i) = IF i \in hostRep.words
                                       THEN hostRep.img[i]
                                       ELSE WriteReq(block, ereq)[i]]_vars
    /\ [](pc = "inside" /\ esite = "proxy" =>
             \A i \in hostRep.words : block[i] = hostRep.img[i])
\* The second round trip of a thread has ended: the first request was
\* answered by the caller, the second was a CPU-id request.
C13_Witness ==
    /\ esite = "run"
    /\ ptrace = ProxyOrder
    /\ nSysCall = 1
    /\ nEnter = 2
    /\ ereq.num = W(0, SYS_ENARX_CPUID)
    /\ hostRep.words = 1..4
    /\ erep = [ret0 |-> W(0, SYS_ENARX_CPUID), ret1 |-> W(0, 11),
               err |-> W(0, 12)]

(***************************************************************************)
(* The circuit breaker: the host-side Thread::enter with an enclave that   *)
(* may call attacked() (handler/base.rs 30-36).                            *)
(***************************************************************************)
\* The enclave, its breaker intact, executes an illegal instruction: the
\* hardware reports the exception to the host's call of Thread::enter.
BreakerTrap ==
    /\ pc = "inside"
    /\ ~tripped
    /\ \E out \in RegsOut, c \in CpuidResults, a \in AttResults :
          ReturnFromHardware(TrapReport(prev), out, c, a)
    /\ UNCHANGED <<prev, hvars>>
    /\ UNCHANGED <<bvars, evars, svars>>

\* The enclave, its breaker intact, leaves with EEXIT.
BreakerExit ==
    /\ pc = "inside"
    /\ ~tripped
    /\ \E out \in RegsOut, c \in CpuidResults, a \in AttResults :
          ReturnFromHardware(ExitReport, out, c, a)
    /\ UNCHANGED <<prev, hvars>>
    /\ UNCHANGED <<bvars, evars, svars>>

\* attacked(): self.exit(1) trips the breaker and leaves the enclave; the
\* host's call of Thread::enter sees a return without exception.
Attacked ==
    /\ pc = "inside"
    /\ ~tripped
    /\ tripped' = TRUE
    /\ \E out \in RegsOut, c \in CpuidResults, a \in AttResults :
          ReturnFromHardware(ExitReport, out, c, a)
    /\ UNCHANGED <<prev, esite, epi, ereq, erep, ptrace, hostRep, postTrip,
                   lastPost>>
    /\ UNCHANGED <<bvars, evars, svars>>

\* An entry after the breaker has tripped: the enclave leaves at once with
\* EEXIT, and the host's call of Thread::enter goes on from there.
TrippedEntry ==
    /\ pc = "inside"
    /\ tripped
    /\ \E out \in RegsOut, c \in CpuidResults, a \in AttResults :
          ReturnFromHardware(ExitReport, out, c, a)
    /\ postTrip' = postTrip + 1
    /\ lastPost' = ret'
    /\ UNCHANGED <<prev, esite, epi, ereq, erep, ptrace, hostRep, tripped>>
    /\ UNCHANGED <<bvars, evars, svars>>

BreakerNext ==
    \/ ShimEnterCall
    \/ BreakerTrap
    \/ BreakerExit
    \/ Attacked
    \/ TrippedEntry

\* One spawned thread whose enclave may trip its circuit breaker.
SpecBreaker == ThreadInit /\ [][BreakerNext]_vars

\* C14: the circuit breaker is a one-way latch that is never reset: once
\* attacked() has tripped it, from any thread state, every later call of
\* enter() does nothing other than an immediate terminal exit: the enclave
\* leaves at once, the call changes neither the thread's mode, nor its
\* depth, nor the block, and a second call after the trip ends the way the
\* first did.
C14_AsStated ==
    [][/\ tripped => tripped'
       /\ tripped /\ EnterEnds =>
             /\ outcome'.kind = "Ok"
             /\ how' = how /\ cssa' = cssa /\ block' = block
             /\ postTrip >= 1 => ret' = lastPost]_vars

(***************************************************************************)
(* Properties of the commands Thread::enter returns, checked under         *)
(* SpecThread.                                                             *)
(***************************************************************************)
\* C21: immediately after Thread::enter returns SysCall the thread's mode
\* is Resume, so the next hardware entry is a resume; a call entered in mode
\* Resume never returns SysCall, so the call that follows a SysCall cannot
\* return SysCall itself; and over any sequence of calls the number of
\* SysCall commands returned is at most the number of InvalidOpcode exits
\* observed.
C21_SysCallOnlyAfterProxyTrap ==
    /\ [](ret = "SysCall" => pc = "idle" /\ how = Resume)
    /\ [](nSysCall <= nEnter)
    /\ [][/\ (pc = "idle" /\ pc' = "inside" /\ ret = "SysCall") =>
                prev' = Resume /\ Resume = 3
          /\ (EnterEnds /\ prev = Resume) => ret' # "SysCall"
          /\ (EnterEnds /\ ret' = "SysCall") =>
                prev = Enter /\ CleanReturn /\ nSysCall' = nSysCall + 1
          /\ nSysCall' # nSysCall => EnterEnds /\ ret' = "SysCall"
          /\ nEnter' # nEnter =>
                EnterEnds /\ ProxyTrap /\ nEnter' = nEnter + 1
          /\ (EnterReturns /\ ProxyTrap) => nEnter' = nEnter + 1]_vars
C21_Witness ==
    /\ ret = "SysCall"
    /\ how = Resume
    /\ nSysCall = 2
    /\ nEnter = 2
    /\ nResume = 2

\* The step in which a call of Thread::enter ends with the error of a
\* failed attestation-report retrieval.
AttestFails == EnterEnds /\ ret' = "Err"
\* The step in which a call of Thread::enter services a CPU-id request and
\* returns.
CpuidServed ==
    /\ EnterReturns
    /\ decoded'
    /\ ReqNum(block) = W(0, SYS_ENARX_CPUID)
\* The four result words of the CPU-id passthrough are in argument words
\* 0..3 of the block.
CpuidWritten ==
    \E c \in CpuidResults :
        /\ ReqArg(block', 0) = W(0, c.eax)
        /\ ReqArg(block', 1) = W(0, c.ebx)
        /\ ReqArg(block', 2) = W(0, c.ecx)
        /\ ReqArg(block', 3) = W(0, c.edx)
\* The failed retrieval leaves the block as it was, with the mode already
\* Resume and the depth already decremented.
AttestFailureKeepsState ==
    AttestFails =>
        /\ prev = Enter /\ CleanReturn
        /\ ReqNum(block) = W(0, SYS_ENARX_GETATT)
        /\ block' = block
        /\ pc' = "idle"
        /\ how' = Resume
        /\ cssa' = cssa - 1
        /\ nResume' = nResume + 1

\* C22 as stated: a failed attestation-report retrieval returns the error
\* with the reply field unwritten and with mode and depth not rolled back,
\* and the CPU-id passthrough writes its four result words into argument
\* words 0..3 and leaves the reply field unchanged.
C22_AsStated ==
    [][/\ AttestFailureKeepsState
       /\ CpuidServed => CpuidWritten /\ RepOf(block') = RepOf(block)]_vars

\* C22 amended: a failed attestation-report retrieval returns the error
\* with the block unwritten and with mode and depth not rolled back; the
\* CPU-id passthrough writes its four result words into argument words 0..3
\* and nothing else, so the request number and argument words 4 and 5 keep
\* their values, while the reply, which shares its storage with the request,
\* then reads (request number, eax, ebx).
C22_CpuidOverlaysReply ==
    [][/\ AttestFailureKeepsState
       /\ CpuidServed =>
            /\ CpuidWritten
            /\ ret' = "Continue"
            /\ ReqNum(block') = ReqNum(block)
            /\ ReqArg(block', 4) = ReqArg(block, 4)
            /\ ReqArg(block', 5) = ReqArg(block, 5)
            /\ RepOf(block') = [ret0 |-> ReqNum(block),
                                ret1 |-> ReqArg(block', 0),
                                err |-> ReqArg(block', 1)]]_vars
C22_Witness ==
    /\ pc = "idle"
    /\ decoded
    /\ ret = "Continue"
    /\ ReqNum(block) = W(0, SYS_ENARX_CPUID)
    /\ ReqArg(block, 0) = W(0, 11)
    /\ ReqArg(block, 3) = W(0, 14)
    /\ ReqArg(block, 4) = W(0, 4)
    /\ RepOf(block).err = W(0, 12)
====
